---- MODULE Spec2Model ----
(***************************************************************************)
(* Model of the multi-token ERC20 runtime module (runtime/src/erc20.rs).  *)
(* The four storage items of decl_storage! are the state; every           *)
(* dispatchable call of decl_module! is one action.  A call runs to       *)
(* completion; the storage writes it made before returning Err stay in    *)
(* storage, exactly as the code performs them (nothing in the module      *)
(* undoes an insert).  After a call has returned, its Result and events   *)
(* stay visible until the caller goes on to its next call.  approved and  *)
(* moved record the totals of the successful approve and transfer_from    *)
(* calls made so far.                                                      *)
(***************************************************************************)
EXTENDS Integers, Sequences, FiniteSets, TLC

\* ---------------------------------------------------------------- bounds
\* largest value of T::TokenBalance (u128::max_value() in the tests)
MaxBalance == 2
\* largest value of the u32 token id (u32::max_value())
TokenIdMax == 2
\* number of calls dispatched in one run
MaxCalls == 3

\* ---------------------------------------------------- program constants
\* the test accounts
A == 0
B == 1
MaxNameLen == 64
MaxTickerLen == 32

\* ------------------------------------------------------------ data types
Accounts == {A, B}
Balances == 0 .. MaxBalance
TokenIds == 0 .. TokenIdMax

\* system::RawOrigin: a signed account, or an origin that is not signed
Signed(a) == [tag |-> "Signed", who |-> a]
Origins == {Signed(a) : a \in Accounts} \cup {[tag |-> "None"]}

\* a byte vector of n bytes
Bytes(n) == [i \in 1 .. n |-> 120]
NameInputs == {Bytes(MaxNameLen), Bytes(MaxNameLen + 1)}
TickerInputs == {Bytes(MaxTickerLen), Bytes(MaxTickerLen + 1)}

Erc20Token(name, ticker, total_supply) ==
  [name |-> name, ticker |-> ticker, total_supply |-> total_supply]

\* Option<T>
None == [some |-> FALSE, val |-> 0]
Some(x) == [some |-> TRUE, val |-> x]

\* CheckedAdd / CheckedSub on an unsigned integer whose largest value is max
checked_add(a, b, max) == IF a + b <= max THEN Some(a + b) ELSE None
checked_sub(a, b) == IF a - b >= 0 THEN Some(a - b) ELSE None

\* -------------------------------------------------------------- results
Ok == "Ok"
ErrBadOrigin == "bad origin: expected to be a signed origin"
ErrNameLen == "token name cannot exceed 64 bytes"
ErrTickerLen == "token ticker cannot exceed 32 bytes"
ErrTokenIdOverflow == "overflow in calculating next token id"
ErrNoAccount == "Account does not own this token"
ErrAllowanceOverflow == "overflow in calculating allowance"
ErrNoAllowance == "Allowance does not exist."
ErrAllowance == "Not enough allowance."
ErrBalance == "Not enough balance."
ErrBalanceOverflow == "overflow in calculating balance"

\* ---------------------------------------------------------------- state
VARIABLES
  TokenId,     \* next token id
  Tokens,      \* token id -> Erc20Token
  BalanceOf,   \* (token id, account) -> balance
  Allowance,   \* (token id, owner, spender) -> allowance
  events,      \* events deposited by the last call
  result,      \* Result returned by the last call
  last,        \* the call that has just returned and its arguments, or idle
  before,      \* the storage the last call started from
  calls,       \* number of calls dispatched
  approved,    \* (token id, owner, spender) -> sum of the values of the
               \* successful approve calls
  moved        \* (token id, from, to) -> sum of the values of the
               \* successful transfer_from calls

vars == <<TokenId, Tokens, BalanceOf, Allowance, events, result, last, before, calls,
         approved, moved>>

\* the storage of the module, as one value
Storage == [TokenId |-> TokenId, Tokens |-> Tokens,
            BalanceOf |-> BalanceOf, Allowance |-> Allowance]

EmptyMap == [k \in {} |-> 0]

\* StorageMap::exists, StorageMap::get (Default when absent), StorageMap::insert
exists(m, k) == k \in DOMAIN m
get(m, k) == IF k \in DOMAIN m THEN m[k] ELSE 0
insert(m, k, v) == [x \in (DOMAIN m) \cup {k} |-> IF x = k THEN v ELSE m[x]]

\* the getters of decl_storage!
balance_of(s, k) == get(s.BalanceOf, k)
allowance(s, k) == get(s.Allowance, k)

\* what a call leaves behind: the storage, the events and the Result
Outcome(s, ev, r) == [storage |-> s, events |-> ev, result |-> r]

ensure_signed(origin) == origin.tag = "Signed"

\* ------------------------------------------------- the checks of the calls
\* ensure!(name.len() <= 64), ensure!(ticker.len() <= 32)
name_ok(name) == Len(name) <= MaxNameLen
ticker_ok(ticker) == Len(ticker) <= MaxTickerLen

\* a counter that is read but not advanced
next_token_id_not_advanced(token_id) == Some(token_id)

\* token_id.checked_add(1)
next_token_id_of(token_id) == checked_add(token_id, 1, TokenIdMax)

\* the balance check left out
balance_check_skipped(sender_balance, value) == TRUE

\* ensure!(sender_balance >= value)
balance_sufficient(sender_balance, value) == sender_balance >= value

\* the existence check left out
allowance_exists_skipped(s, k) == TRUE

\* ensure!(<Allowance<T>>::exists(..)), ensure!(allowance >= value)
allowance_exists(s, k) == exists(s.Allowance, k)
\* the allowance check left out
allowance_check_skipped(allowance_, value) == TRUE

allowance_sufficient(allowance_, value) == allowance_ >= value

\* approve that sets the allowance instead of adding to it
approved_allowance_set(allowance_, value) == Some(value)

\* allowance.checked_add(&value) of approve
approved_allowance(allowance_, value) == checked_add(allowance_, value, MaxBalance)

\* the decremented allowance not written back
store_allowance_dropped(s, k, updated_allowance) == s

\* <Allowance<T>>::insert(.., updated_allowance) of transfer_from
store_allowance(s, k, updated_allowance) ==
  [s EXCEPT !.Allowance = insert(@, k, updated_allowance)]

\* _transfer that credits the receiver under token id 0, whatever the token
_transfer_credits_token_zero(s, ev, token_id, from, to, value) ==
  IF ~exists(s.BalanceOf, <<token_id, from>>) THEN Outcome(s, ev, ErrNoAccount)
  ELSE LET sender_balance == balance_of(s, <<token_id, from>>) IN
    IF ~balance_sufficient(sender_balance, value) THEN Outcome(s, ev, ErrBalance)
    ELSE LET updated_from_balance == checked_sub(sender_balance, value) IN
      IF ~updated_from_balance.some THEN Outcome(s, ev, ErrBalanceOverflow)
      ELSE LET receiver_balance == balance_of(s, <<0, to>>)
               updated_to_balance == checked_add(receiver_balance, value, MaxBalance) IN
        IF ~updated_to_balance.some THEN Outcome(s, ev, ErrBalanceOverflow)
        ELSE LET s1 == [s EXCEPT !.BalanceOf =
                          insert(@, <<token_id, from>>, updated_from_balance.val)]
                 s2 == [s1 EXCEPT !.BalanceOf =
                          insert(@, <<0, to>>, updated_to_balance.val)]
             IN Outcome(s2,
                        Append(ev, [event |-> "Transfer", token_id |-> token_id,
                                    from |-> from, to |-> to, value |-> value]),
                        Ok)

\* --------------------------------------------------------------- _transfer
_transfer(s, ev, token_id, from, to, value) ==
  IF ~exists(s.BalanceOf, <<token_id, from>>) THEN Outcome(s, ev, ErrNoAccount)
  ELSE LET sender_balance == balance_of(s, <<token_id, from>>) IN
    IF ~balance_sufficient(sender_balance, value) THEN Outcome(s, ev, ErrBalance)
    ELSE LET updated_from_balance == checked_sub(sender_balance, value) IN
      IF ~updated_from_balance.some THEN Outcome(s, ev, ErrBalanceOverflow)
      ELSE LET receiver_balance == balance_of(s, <<token_id, to>>)
               updated_to_balance == checked_add(receiver_balance, value, MaxBalance) IN
        IF ~updated_to_balance.some THEN Outcome(s, ev, ErrBalanceOverflow)
        ELSE LET s1 == [s EXCEPT !.BalanceOf =
                          insert(@, <<token_id, from>>, updated_from_balance.val)]
                 s2 == [s1 EXCEPT !.BalanceOf =
                          insert(@, <<token_id, to>>, updated_to_balance.val)]
             IN Outcome(s2,
                        Append(ev, [event |-> "Transfer", token_id |-> token_id,
                                    from |-> from, to |-> to, value |-> value]),
                        Ok)

\* ------------------------------------------------------------------- init
init_call(s, origin, name, ticker, total_supply) ==
  IF ~ensure_signed(origin) THEN Outcome(s, <<>>, ErrBadOrigin)
  ELSE IF ~name_ok(name) THEN Outcome(s, <<>>, ErrNameLen)
  ELSE IF ~ticker_ok(ticker) THEN Outcome(s, <<>>, ErrTickerLen)
  ELSE LET sender == origin.who
           token_id == s.TokenId
           next_token_id == next_token_id_of(token_id) IN
    IF ~next_token_id.some THEN Outcome(s, <<>>, ErrTokenIdOverflow)
    ELSE Outcome([TokenId |-> next_token_id.val,
                  Tokens |-> insert(s.Tokens, token_id,
                                    Erc20Token(name, ticker, total_supply)),
                  BalanceOf |-> insert(s.BalanceOf, <<token_id, sender>>, total_supply),
                  Allowance |-> s.Allowance],
                 <<>>, Ok)

\* transfer with the source and the destination exchanged
transfer_call_swapped(s, origin, token_id, to, value) ==
  IF ~ensure_signed(origin) THEN Outcome(s, <<>>, ErrBadOrigin)
  ELSE _transfer(s, <<>>, token_id, to, origin.who, value)

\* --------------------------------------------------------------- transfer
transfer_call(s, origin, token_id, to, value) ==
  IF ~ensure_signed(origin) THEN Outcome(s, <<>>, ErrBadOrigin)
  ELSE _transfer(s, <<>>, token_id, origin.who, to, value)

\* approve that also wants the caller to hold the approved amount
approve_call_needs_funds(s, origin, token_id, spender, value) ==
  IF ~ensure_signed(origin) THEN Outcome(s, <<>>, ErrBadOrigin)
  ELSE LET sender == origin.who IN
    IF ~exists(s.BalanceOf, <<token_id, sender>>) THEN Outcome(s, <<>>, ErrNoAccount)
    ELSE IF ~(balance_of(s, <<token_id, sender>>) >= value)
      THEN Outcome(s, <<>>, ErrBalance)
    ELSE LET allowance_ == allowance(s, <<token_id, sender, spender>>)
             updated_allowance == approved_allowance(allowance_, value) IN
      IF ~updated_allowance.some THEN Outcome(s, <<>>, ErrAllowanceOverflow)
      ELSE Outcome([s EXCEPT !.Allowance =
                      insert(@, <<token_id, sender, spender>>, updated_allowance.val)],
                   <<[event |-> "Approval", token_id |-> token_id,
                      from |-> sender, to |-> spender, value |-> value]>>,
                   Ok)

\* ---------------------------------------------------------------- approve
approve_call(s, origin, token_id, spender, value) ==
  IF ~ensure_signed(origin) THEN Outcome(s, <<>>, ErrBadOrigin)
  ELSE LET sender == origin.who IN
    IF ~exists(s.BalanceOf, <<token_id, sender>>) THEN Outcome(s, <<>>, ErrNoAccount)
    ELSE LET allowance_ == allowance(s, <<token_id, sender, spender>>)
             updated_allowance == approved_allowance(allowance_, value) IN
      IF ~updated_allowance.some THEN Outcome(s, <<>>, ErrAllowanceOverflow)
      ELSE Outcome([s EXCEPT !.Allowance =
                      insert(@, <<token_id, sender, spender>>, updated_allowance.val)],
                   <<[event |-> "Approval", token_id |-> token_id,
                      from |-> sender, to |-> spender, value |-> value]>>,
                   Ok)

\* transfer_from that takes the signer of the call as the spender
transfer_from_call_caller_keyed(s, origin, token_id, from, to, value) ==
  IF ~ensure_signed(origin) THEN Outcome(s, <<>>, ErrBadOrigin)
  ELSE LET spender == origin.who IN
    IF ~allowance_exists(s, <<token_id, from, spender>>)
      THEN Outcome(s, <<>>, ErrNoAllowance)
    ELSE LET allowance_ == allowance(s, <<token_id, from, spender>>) IN
      IF ~allowance_sufficient(allowance_, value) THEN Outcome(s, <<>>, ErrAllowance)
      ELSE LET updated_allowance == checked_sub(allowance_, value) IN
        IF ~updated_allowance.some THEN Outcome(s, <<>>, ErrAllowanceOverflow)
        ELSE LET s1 == store_allowance(s, <<token_id, from, spender>>,
                                       updated_allowance.val)
                 ev == <<[event |-> "Approval", token_id |-> token_id,
                          from |-> from, to |-> spender, value |-> value]>>
             IN _transfer(s1, ev, token_id, from, to, value)

\* ---------------------------------------------------------- transfer_from
transfer_from_call(s, origin, token_id, from, to, value) ==
  IF ~allowance_exists(s, <<token_id, from, to>>) THEN Outcome(s, <<>>, ErrNoAllowance)
  ELSE LET allowance_ == allowance(s, <<token_id, from, to>>) IN
    IF ~allowance_sufficient(allowance_, value) THEN Outcome(s, <<>>, ErrAllowance)
    ELSE LET updated_allowance == checked_sub(allowance_, value) IN
      IF ~updated_allowance.some THEN Outcome(s, <<>>, ErrAllowanceOverflow)
      ELSE LET s1 == store_allowance(s, <<token_id, from, to>>, updated_allowance.val)
               ev == <<[event |-> "Approval", token_id |-> token_id,
                        from |-> from, to |-> to, value |-> value]>>
           IN _transfer(s1, ev, token_id, from, to, value)

\* ---------------------------------------------------------------- actions
\* one dispatched call: the storage, events and Result become what the call
\* leaves behind, and stay so until the caller goes on (next_call)
Dispatch(call, out) ==
  /\ calls < MaxCalls
  /\ last.op = "idle"
  /\ TokenId' = out.storage.TokenId
  /\ Tokens' = out.storage.Tokens
  /\ BalanceOf' = out.storage.BalanceOf
  /\ Allowance' = out.storage.Allowance
  /\ events' = out.events
  /\ result' = out.result
  /\ last' = call
  /\ before' = Storage
  /\ calls' = calls + 1
  /\ approved' = IF call.op = "approve" /\ out.result = Ok
                 THEN LET k == <<call.token_id, call.origin.who, call.spender>>
                      IN insert(approved, k, get(approved, k) + call.value)
                 ELSE approved
  /\ moved' = IF call.op = "transfer_from" /\ out.result = Ok
              THEN LET k == <<call.token_id, call.from, call.to>>
                   IN insert(moved, k, get(moved, k) + call.value)
              ELSE moved

init ==
  \E origin \in Origins, name \in NameInputs, ticker \in TickerInputs,
     total_supply \in Balances :
    Dispatch([op |-> "init", origin |-> origin, name |-> name, ticker |-> ticker,
              total_supply |-> total_supply],
             init_call(Storage, origin, name, ticker, total_supply))

transfer ==
  \E origin \in Origins, token_id \in TokenIds, to \in Accounts, value \in Balances :
    Dispatch([op |-> "transfer", origin |-> origin, token_id |-> token_id,
              to |-> to, value |-> value],
             transfer_call(Storage, origin, token_id, to, value))

approve ==
  \E origin \in Origins, token_id \in TokenIds, spender \in Accounts, value \in Balances :
    Dispatch([op |-> "approve", origin |-> origin, token_id |-> token_id,
              spender |-> spender, value |-> value],
             approve_call(Storage, origin, token_id, spender, value))

transfer_from ==
  \E origin \in Origins, token_id \in TokenIds, from \in Accounts, to \in Accounts,
     value \in Balances :
    Dispatch([op |-> "transfer_from", origin |-> origin, token_id |-> token_id,
              from |-> from, to |-> to, value |-> value],
             transfer_from_call(Storage, origin, token_id, from, to, value))

Init ==
  /\ TokenId = 0
  /\ Tokens = EmptyMap
  /\ BalanceOf = EmptyMap
  /\ Allowance = EmptyMap
  /\ events = <<>>
  /\ result = Ok
  /\ last = [op |-> "idle"]
  /\ before = [TokenId |-> 0, Tokens |-> EmptyMap,
               BalanceOf |-> EmptyMap, Allowance |-> EmptyMap]
  /\ calls = 0
  /\ approved = EmptyMap
  /\ moved = EmptyMap

\* the call has returned and the caller goes on: the Result has been
\* consumed, the storage stays as the call left it
next_call ==
  /\ last.op # "idle"
  /\ last' = [op |-> "idle"]
  /\ result' = Ok
  /\ events' = <<>>
  /\ before' = Storage
  /\ UNCHANGED <<TokenId, Tokens, BalanceOf, Allowance, calls, approved, moved>>

Next == init \/ transfer \/ approve \/ transfer_from \/ next_call

Spec == Init /\ [][Next]_vars

\* ------------------------------------------------------ shared vocabulary
\* the last call was op, made by a signed account
SignedCall(op) == last.op = op /\ last.origin.tag = "Signed"

RECURSIVE SumOver(_, _)
SumOver(m, keys) ==
  IF keys = {} THEN 0
  ELSE LET k == CHOOSE x \in keys : TRUE IN m[k] + SumOver(m, keys \ {k})

\* sum of the balance entries of token t in the balance map m
TotalBalance(m, t) == SumOver(m, {k \in DOMAIN m : k[1] = t})

TypeOK ==
  /\ TokenId \in 0 .. TokenIdMax
  /\ \A k \in DOMAIN BalanceOf : BalanceOf[k] \in Balances
  /\ \A k \in DOMAIN Allowance : Allowance[k] \in Balances
  /\ calls \in 0 .. MaxCalls

\* the arguments of the last call, where the call has them
Caller == last.origin.who
CallerKey == <<last.token_id, last.origin.who>>

\* ------------------------------------------------------------------ C1
\* C1: for every token the sum of its balance entries equals the
\* total_supply recorded for it at init, in every reachable state.
C1_Conservation ==
  \A t \in DOMAIN Tokens : TotalBalance(BalanceOf, t) = Tokens[t].total_supply

\* ------------------------------------------------------------------ C2
\* C2: a transfer (or transfer_from) whose source and destination are the
\* same account, with value <= the account's balance, succeeds and leaves
\* that balance as it was before the call.
C2_SelfTransferKeepsBalance ==
  /\ ( /\ SignedCall("transfer")
       /\ last.to = Caller
       /\ exists(before.BalanceOf, CallerKey)
       /\ last.value <= balance_of(before, CallerKey) )
     => ( /\ result = Ok
          /\ balance_of(Storage, CallerKey) = balance_of(before, CallerKey) )
  /\ ( /\ last.op = "transfer_from"
       /\ last.from = last.to
       /\ result = Ok )
     => balance_of(Storage, <<last.token_id, last.from>>)
          = balance_of(before, <<last.token_id, last.from>>)

\* ------------------------------------------------------------------ C3
\* C3: a call that returns an error leaves the token-id counter, the
\* registry, the balance ledger and the allowance ledger as they were.
C3_AllOrNothing == result # Ok => Storage = before

\* ------------------------------------------------------------------ C4
\* C4: a transfer by a caller that has a balance entry, with value greater
\* than the caller's balance, fails with "Not enough balance." and leaves
\* the balances of the caller and of the destination unchanged.
C4_OverspendRejected ==
  ( /\ SignedCall("transfer")
    /\ exists(before.BalanceOf, CallerKey)
    /\ last.value > balance_of(before, CallerKey) )
  => ( /\ result = ErrBalance
       /\ balance_of(Storage, CallerKey) = balance_of(before, CallerKey)
       /\ balance_of(Storage, <<last.token_id, last.to>>)
            = balance_of(before, <<last.token_id, last.to>>)
       /\ BalanceOf = before.BalanceOf )

\* an overspending transfer to the caller itself, from an entry that holds
\* exactly zero of a token with a positive supply
C4_Witness ==
  /\ SignedCall("transfer")
  /\ last.to = Caller
  /\ exists(before.BalanceOf, CallerKey)
  /\ balance_of(before, CallerKey) = 0
  /\ last.value > 0
  /\ last.token_id \in DOMAIN Tokens
  /\ Tokens[last.token_id].total_supply > 0
  /\ result = ErrBalance

\* ------------------------------------------------------------------ C5
\* C5: transfer_from fails with "Allowance does not exist." when the entry
\* (token, from, to) is absent and with "Not enough allowance." when it is
\* smaller than value; when it succeeds the entry has decreased by value
\* and, for from # to, from's balance has decreased by value and to's
\* balance has increased by value.
C5_AllowanceGate ==
  last.op = "transfer_from" =>
    LET k == <<last.token_id, last.from, last.to>>
        kf == <<last.token_id, last.from>>
        kt == <<last.token_id, last.to>>
    IN /\ ~exists(before.Allowance, k) => result = ErrNoAllowance
       /\ ( exists(before.Allowance, k) /\ allowance(before, k) < last.value )
            => result = ErrAllowance
       /\ result = Ok =>
            /\ exists(before.Allowance, k)
            /\ allowance(before, k) >= last.value
            /\ allowance(Storage, k) = allowance(before, k) - last.value
            /\ last.from # last.to =>
                 /\ balance_of(Storage, kf) = balance_of(before, kf) - last.value
                 /\ balance_of(Storage, kt) = balance_of(before, kt) + last.value

\* a successful transfer_from of a positive value between two accounts
C5_Witness ==
  /\ last.op = "transfer_from"
  /\ result = Ok
  /\ last.from # last.to
  /\ last.value > 0
  /\ allowance(before, <<last.token_id, last.from, last.to>>) >= last.value

\* ------------------------------------------------------------------ C6
\* C6: a call of init, transfer, approve or transfer_from whose origin is
\* not a signed account fails and changes no store.
C6_SignedOnly ==
  ( last.op \in {"init", "transfer", "approve", "transfer_from"}
    /\ last.origin.tag # "Signed" )
  => ( result # Ok /\ Storage = before )

\* ------------------------------------------------------------------ C7
\* C7: a transfer, approve or transfer_from naming a token id that no init
\* has allocated (id >= counter) fails and leaves all stores unchanged.
C7_PreCreationRejected ==
  ( last.op \in {"transfer", "approve", "transfer_from"}
    /\ last.token_id >= before.TokenId )
  => ( result # Ok /\ Storage = before )

\* a transfer_from of value 0 on an id that is not allocated, while another
\* token exists
C7_Witness ==
  /\ last.op = "transfer_from"
  /\ before.TokenId > 0
  /\ last.token_id >= before.TokenId
  /\ last.value = 0
  /\ result # Ok

\* ------------------------------------------------------------------ C8
\* C8: approve adds to the allowance: a successful approve(token, spender, v)
\* leaves allowance = previous allowance + v and changes no balance and no
\* other allowance entry; two successive successful approves of v1 and v2 by
\* the same owner for the same (token, spender) leave
\* allowance = allowance before the first + v1 + v2.
C8_ApproveStep ==
  ( SignedCall("approve") /\ result = Ok ) =>
    LET k == <<last.token_id, Caller, last.spender>>
    IN /\ exists(before.BalanceOf, CallerKey)
       /\ allowance(Storage, k) = allowance(before, k) + last.value
       /\ BalanceOf = before.BalanceOf
       /\ DOMAIN Allowance = (DOMAIN before.Allowance) \cup {k}
       /\ \A j \in DOMAIN Allowance : j # k => Allowance[j] = before.Allowance[j]
       /\ TokenId = before.TokenId /\ Tokens = before.Tokens

\* the approve that has just succeeded (of v1 = last.value), followed by a
\* second approve of any v2 by the same owner for the same (token, spender)
C8_TwoApproves ==
  ( SignedCall("approve") /\ result = Ok ) =>
    \A v2 \in Balances :
      LET k == <<last.token_id, Caller, last.spender>>
          second == approve_call(Storage, last.origin, last.token_id, last.spender, v2)
      IN /\ second.result = Ok <=> allowance(before, k) + last.value + v2 <= MaxBalance
         /\ second.result = Ok =>
              /\ allowance(second.storage, k) = allowance(before, k) + last.value + v2
              /\ second.storage.BalanceOf = before.BalanceOf

C9_ZeroTransferChangesNothing ==
  ( /\ SignedCall("transfer")
    /\ last.value = 0
    /\ exists(before.BalanceOf, CallerKey) )
  => ( result = Ok /\ Storage = before )

\* ----------------------------------------------------------------- C10
\* C10: the counter starts at 0; a successful init allocates the id equal
\* to the counter before the call, increments the counter by 1, stores the
\* token record under that id and sets the caller's balance to
\* total_supply; an init with a name over 64 bytes, a ticker over 32 bytes
\* or a saturated counter fails and leaves the counter unchanged; a token
\* record exists for id i exactly when i < counter.
C10_DenseTokenIds ==
  /\ calls = 0 => TokenId = 0
  /\ DOMAIN Tokens = 0 .. (TokenId - 1)
  /\ last.op = "init" =>
       /\ ( \/ Len(last.name) > 64
            \/ Len(last.ticker) > 32
            \/ before.TokenId = TokenIdMax ) => result # Ok
       /\ result # Ok => TokenId = before.TokenId /\ Tokens = before.Tokens
       /\ result = Ok =>
            /\ TokenId = before.TokenId + 1
            /\ ~exists(before.Tokens, before.TokenId)
            /\ Tokens = insert(before.Tokens, before.TokenId,
                               Erc20Token(last.name, last.ticker, last.total_supply))
            /\ balance_of(Storage, <<before.TokenId, Caller>>) = last.total_supply

\* a second successful init, which allocates id 1
C10_Witness ==
  /\ last.op = "init"
  /\ result = Ok
  /\ before.TokenId = 1
  /\ TokenId = 2
  /\ 1 \in DOMAIN Tokens

\* ----------------------------------------------------------------- C11
\* C11: once a token record exists, it exists in every later state with the
\* same name, ticker and total_supply, whatever call is made.
C11_RecordKept ==
  \A t \in DOMAIN Tokens : t \in DOMAIN Tokens' /\ Tokens'[t] = Tokens[t]

C11_TokenImmutable == [][C11_RecordKept]_vars

\* a second init has succeeded, with a total_supply other than token 0's,
\* and token 0's record is in the registry
C11_Witness ==
  /\ last.op = "init"
  /\ result = Ok
  /\ 0 \in DOMAIN before.Tokens
  /\ 0 \in DOMAIN Tokens
  /\ last.total_supply # Tokens[0].total_supply

\* ----------------------------------------------------------------- C12
\* C12: an approve by a caller without a balance entry for the token fails
\* with "Account does not own this token" and changes nothing; an approve
\* by a caller with a balance entry succeeds whenever allowance + value is
\* within the balance type's range, also when value exceeds the balance.
C12_ApprovePrecondition ==
  SignedCall("approve") =>
    LET k == <<last.token_id, Caller, last.spender>>
    IN /\ ~exists(before.BalanceOf, CallerKey) =>
            ( result = ErrNoAccount /\ Storage = before /\ events = <<>> )
       /\ ( exists(before.BalanceOf, CallerKey)
            /\ allowance(before, k) + last.value <= MaxBalance ) => result = Ok

\* a successful approve of more than the caller holds, by a caller whose
\* balance entry holds exactly zero
C12_Witness ==
  /\ SignedCall("approve")
  /\ result = Ok
  /\ exists(before.BalanceOf, CallerKey)
  /\ balance_of(before, CallerKey) = 0
  /\ last.value > 0

\* ----------------------------------------------------------------- C13
\* C13: every stored balance, allowance and counter value is within its
\* type's range; a call whose checked_add would leave the range fails with
\* the overflow error, and a call that fails with an overflow error has
\* written nothing; a transfer of the maximum value from the holder of a
\* total_supply equal to the maximum to an account with balance 0 succeeds
\* and leaves 0 and the maximum.
C13_OverflowResults ==
  {ErrTokenIdOverflow, ErrAllowanceOverflow, ErrBalanceOverflow}

C13_NoWrapAround ==
  /\ TokenId \in 0 .. TokenIdMax
  /\ \A k \in DOMAIN BalanceOf : BalanceOf[k] \in Balances
  /\ \A k \in DOMAIN Allowance : Allowance[k] \in Balances
  /\ result \in C13_OverflowResults => Storage = before
  /\ ( SignedCall("init") /\ name_ok(last.name) /\ ticker_ok(last.ticker)
       /\ before.TokenId + 1 > TokenIdMax ) => result = ErrTokenIdOverflow
  /\ ( SignedCall("approve") /\ exists(before.BalanceOf, CallerKey)
       /\ allowance(before, <<last.token_id, Caller, last.spender>>) + last.value
            > MaxBalance ) => result = ErrAllowanceOverflow
  /\ ( SignedCall("transfer") /\ exists(before.BalanceOf, CallerKey)
       /\ balance_of(before, CallerKey) >= last.value
       /\ balance_of(before, <<last.token_id, last.to>>) + last.value > MaxBalance )
     => result = ErrBalanceOverflow
  /\ ( SignedCall("transfer") /\ last.to # Caller
       /\ last.token_id \in DOMAIN before.Tokens
       /\ before.Tokens[last.token_id].total_supply = MaxBalance
       /\ exists(before.BalanceOf, CallerKey)
       /\ balance_of(before, CallerKey) = MaxBalance
       /\ balance_of(before, <<last.token_id, last.to>>) = 0
       /\ last.value = MaxBalance )
     => ( /\ result = Ok
          /\ balance_of(Storage, CallerKey) = 0
          /\ balance_of(Storage, <<last.token_id, last.to>>) = MaxBalance )

\* ----------------------------------------------------------------- C14
\* C14: a balance entry (token, a) comes into existence only when a
\* initializes the token or receives a positive amount of it, and does so
\* in both cases; an entry that exists stays, also at balance zero; a
\* transfer whose source has no entry fails with "Account does not own
\* this token" for every value.
C14_NewEntries == (DOMAIN BalanceOf) \ (DOMAIN before.BalanceOf)

C14_EntryExistence ==
  /\ DOMAIN before.BalanceOf \subseteq DOMAIN BalanceOf
  /\ \A k \in C14_NewEntries :
       \/ /\ last.op = "init" /\ result = Ok
          /\ k = <<before.TokenId, Caller>>
       \/ /\ last.op \in {"transfer", "transfer_from"} /\ result = Ok
          /\ k = <<last.token_id, last.to>>
          /\ last.value > 0
  /\ ( last.op = "init" /\ result = Ok )
       => exists(BalanceOf, <<before.TokenId, Caller>>)
  /\ ( last.op \in {"transfer", "transfer_from"} /\ result = Ok /\ last.value > 0 )
       => exists(BalanceOf, <<last.token_id, last.to>>)
  /\ ( SignedCall("transfer") /\ ~exists(before.BalanceOf, CallerKey) )
       => ( result = ErrNoAccount /\ Storage = before )

\* ----------------------------------------------------------------- C15
\* C15: transfer_from(token, from, to, value) reads and writes no allowance
\* entry other than (token, from, to); made from the same storage by any
\* other origin it gives the same Result, storage and events; without a
\* sufficient entry (token, from, to) it fails, whatever the signer's own
\* allowance (token, from, signer) is.
C15_KeyedByDestination ==
  last.op = "transfer_from" =>
    LET k == <<last.token_id, last.from, last.to>>
    IN /\ \A o \in Origins :
            transfer_from_call(before, o, last.token_id, last.from, last.to, last.value)
              = Outcome(Storage, events, result)
       /\ DOMAIN Allowance \subseteq (DOMAIN before.Allowance) \cup {k}
       /\ \A j \in DOMAIN before.Allowance :
            j # k => ( j \in DOMAIN Allowance /\ Allowance[j] = before.Allowance[j] )
       /\ ( ~exists(before.Allowance, k) \/ allowance(before, k) < last.value )
            => ( result \in {ErrNoAllowance, ErrAllowance} /\ Storage = before )

\* a signer with a sufficient allowance from the owner names a destination
\* other than itself, for which the owner has approved nothing: rejected
C15_Witness ==
  /\ SignedCall("transfer_from")
  /\ last.to # Caller
  /\ last.from # Caller
  /\ last.value > 0
  /\ allowance(before, <<last.token_id, last.from, Caller>>) >= last.value
  /\ ~exists(before.Allowance, <<last.token_id, last.from, last.to>>)
  /\ result = ErrNoAllowance
  /\ Storage = before

C17_TokenOfCall == IF last.op = "init" THEN before.TokenId ELSE last.token_id

\* the entries of map m whose token id is not t
C17_OtherTokens(m, t) == {k \in DOMAIN m : k[1] # t}

C17_CrossTokenIsolation ==
  /\ last.op \in {"init", "transfer", "approve", "transfer_from"} =>
       LET t == C17_TokenOfCall
       IN /\ C17_OtherTokens(BalanceOf, t) = C17_OtherTokens(before.BalanceOf, t)
          /\ \A k \in C17_OtherTokens(BalanceOf, t) : BalanceOf[k] = before.BalanceOf[k]
          /\ C17_OtherTokens(Allowance, t) = C17_OtherTokens(before.Allowance, t)
          /\ \A k \in C17_OtherTokens(Allowance, t) : Allowance[k] = before.Allowance[k]
  /\ last.op = "init" =>
       /\ (DOMAIN BalanceOf) \ (DOMAIN before.BalanceOf)
            \subseteq {<<before.TokenId, a>> : a \in {x \in Accounts : last.origin = Signed(x)}}
       /\ Allowance = before.Allowance
  /\ \A t \in TokenIds, a \in Accounts :
       t >= TokenId => balance_of(Storage, <<t, a>>) = 0

\* a successful transfer of a positive amount of token 1 while token 0 has
\* a balance entry with a positive balance
C17_Witness ==
  /\ SignedCall("transfer")
  /\ result = Ok
  /\ last.token_id = 1
  /\ last.value > 0
  /\ last.to # Caller
  /\ \E a \in Accounts : balance_of(Storage, <<0, a>>) > 0

\* ----------------------------------------------------------------- C18
\* C18: in the events a call deposits, every Approval of transfer_from is
\* immediately followed by the Transfer of the same call with the same
\* fields; a call that returns an error deposits no event; init deposits no
\* event; a successful approve deposits exactly one Approval, carrying the
\* added value.
C18_Event(kind, token_id, from, to, value) ==
  [event |-> kind, token_id |-> token_id, from |-> from, to |-> to, value |-> value]

C18_EventPairing ==
  /\ result # Ok => events = <<>>
  /\ last.op = "init" => events = <<>>
  /\ ( SignedCall("approve") /\ result = Ok ) =>
       events = <<C18_Event("Approval", last.token_id, Caller, last.spender, last.value)>>
  /\ last.op = "transfer_from" =>
       \A i \in 1 .. Len(events) :
         events[i].event = "Approval" =>
           /\ i + 1 <= Len(events)
           /\ events[i + 1] = C18_Event("Transfer", last.token_id, last.from,
                                        last.to, last.value)
           /\ events[i] = C18_Event("Approval", last.token_id, last.from,
                                    last.to, last.value)

\* ----------------------------------------------------------------- C19
\* C19: the checked_sub of transfer_from (allowance - value) and the
\* checked_sub of the balance move (sender balance - value) never fail: a
\* transfer_from never returns the allowance overflow error, and a balance
\* overflow error only comes from the addition on the receiver's balance,
\* with the sender's balance at least value.
C19_SourceKey ==
  IF last.op = "transfer" THEN <<last.token_id, last.origin.who>>
  ELSE <<last.token_id, last.from>>

C19_SubtractionNeverFails ==
  /\ last.op = "transfer_from" => result # ErrAllowanceOverflow
  /\ ( last.op \in {"transfer", "transfer_from"} /\ result = ErrBalanceOverflow ) =>
       /\ balance_of(before, C19_SourceKey) >= last.value
       /\ checked_sub(balance_of(before, C19_SourceKey), last.value).some
       /\ balance_of(before, <<last.token_id, last.to>>) + last.value > MaxBalance
  /\ ( last.op = "transfer_from"
       /\ exists(before.Allowance, <<last.token_id, last.from, last.to>>)
       /\ allowance(before, <<last.token_id, last.from, last.to>>) < last.value )
     => result = ErrAllowance
  /\ ( SignedCall("transfer") /\ exists(before.BalanceOf, CallerKey)
       /\ balance_of(before, CallerKey) < last.value ) => result = ErrBalance

\* a transfer_from of more than the existing allowance: rejected by the
\* comparison, not by the subtraction
C19_Witness ==
  /\ last.op = "transfer_from"
  /\ exists(before.Allowance, <<last.token_id, last.from, last.to>>)
  /\ allowance(before, <<last.token_id, last.from, last.to>>) > 0
  /\ last.value > allowance(before, <<last.token_id, last.from, last.to>>)
  /\ result = ErrAllowance
====
